---- MODULE Spec2Model ----
(***************************************************************************)
(* WorkMatrix web: the calendar view (src/src/pages/CalendarView.tsx),     *)
(* and, further down, the auth provider, the HR screens, the punch page    *)
(* with its location tracking, and the approval screens.                   *)
(*                                                                         *)
(* Strings that the code builds, parses or compares character by character *)
(* (ISO dates, leave types, labels) are sequences of one-character         *)
(* strings.  A JavaScript Date is its time value in minutes since the      *)
(* epoch (UTC), or NaN; the client's time zone is a fixed offset tz in      *)
(* minutes east of UTC.  What new Date(string) makes of a day of the month *)
(* that the month does not have is left to the engine by ECMAScript        *)
(* (Date.parse falls back to implementation-specific heuristics): V8 lets  *)
(* the day run into the next month, SpiderMonkey and JavaScriptCore give   *)
(* an Invalid Date; the variable lenient says which engine the client has. *)
(***************************************************************************)
EXTENDS Integers, Sequences, FiniteSets, TLC

VARIABLES
    nowYear,      \* new Date().getFullYear() of the client
    nowMonth,     \* new Date().getMonth() of the client, 0..11
    tz,           \* client's offset from UTC in minutes, east positive
    lenient,      \* the client's engine parses "2024-02-30" as 1 March
    dbAtt,        \* backend: attendance documents of the user
    dbLeaves,     \* backend: leave documents of the user
    dbHol,        \* backend: holiday documents
    year,         \* useState year
    month,        \* useState month, 0..11
    attendance,   \* useState attendance
    leaves,       \* useState leaves
    holidays,     \* useState holidays
    loading,      \* useState loading
    error,        \* useState error: "" is null
    selectedDay,  \* useState selectedDay: <<>> is null, else <<DayInfo>>
    pc,           \* position of the running fetchAll: idle, att, leave, hol
    attData,      \* fetchAll's local attData
    leaveData,    \* fetchAll's local leaveData
    monthGrid,    \* useMemo monthGrid
    stats,        \* useMemo stats
    \* AuthProvider (src/src/contexts/AuthContext.tsx)
    currentUser,  \* auth.currentUser of Firebase: "" is null, else a uid
    dbUsers,      \* backend: the users documents, uid -> role
    user,         \* useState user: "" is null, else a uid
    profile,      \* useState profile: <<>> is null, else <<UserProfile>>
    authLoading,  \* useState loading of the provider
    callbacks,    \* the auth-state callbacks that are awaiting a promise
    signupPc,     \* position of signup: idle, setDoc, done
    \* The HR screens behind ProtectedRoute
    screen,       \* the mounted HR screen: "none" or its name
    view,         \* what it renders: none, notice, page, crashed
    lastOp,       \* the last backend call of a screen: <<>> or <<call>>
    subscribed,   \* the onSnapshot listener of the live map is attached
    \* useShiftTracking (src/unnamed/part_006)
    options,      \* the options of the last render: <<>> while unmounted
    intervalRef,  \* intervalRef.current: 0 is null, else a timer id
    timers,       \* the running intervals: id -> minutes until they fire
    pending,      \* getCurrentPosition requests not yet answered
    sinceUpdate,  \* minutes since updateLocation was last called
    \* Punch (src/src/pages/attendance/Punch.tsx)
    dbPunch,      \* backend: attendance/{uid}_{today}
    dbLive,       \* backend: liveLocations/{uid}: <<>> or <<document>>
    pAttendance,  \* useState attendance: <<>> is null, else <<record>>
    pLoading,     \* useState loading
    punching,     \* useState punching
    pError,       \* useState error: "" is null
    pPc,          \* position of fetchToday or handlePunch
    \* HrAttendanceRegularisation (src/src/pages/expenses/EmployeeExpenses.tsx)
    dbReg,        \* backend: attendanceRegularisation, id -> status
    dbRegAtt,     \* backend: the attendance record of each request's day
    requests,     \* useState requests: the ids of the pending list
    regUpdatingId, \* useState updatingId: <<>> is null, else <<id>>
    decisions,    \* the calls of handleDecision that are awaiting
    \* HrExpenses (src/src/pages/hr/HrExpenses.tsx)
    dbExp,        \* backend: expenses, id -> status
    expenses,     \* useState expenses, id -> status
    updatingId,   \* useState updatingId: <<>> is null, else <<id>>
    updates       \* the calls of handleUpdateStatus that are awaiting

vars == <<nowYear, nowMonth, tz, lenient, dbAtt, dbLeaves, dbHol, year, month,
          attendance, leaves, holidays, loading, error, selectedDay, pc,
          attData, leaveData, monthGrid, stats,
          currentUser, dbUsers, user, profile, authLoading, callbacks,
          signupPc, screen, view, lastOp, subscribed,
          options, intervalRef, timers, pending, sinceUpdate,
          dbPunch, dbLive, pAttendance, pLoading, punching, pError, pPc,
          dbReg, dbRegAtt, requests, regUpdatingId, decisions,
          dbExp, expenses, updatingId, updates>>

----------------------------------------------------------------------------
(* Characters and number formatting *)

Digits == <<"0", "1", "2", "3", "4", "5", "6", "7", "8", "9">>

IsDigit(c) == \E i \in 1..10 : Digits[i] = c

DigitVal(c) == (CHOOSE i \in 1..10 : Digits[i] = c) - 1

\* String(n) for n >= 0
RECURSIVE ToStr(_)
ToStr(n) == IF n < 10 THEN <<Digits[n + 1]>>
            ELSE ToStr(n \div 10) \o <<Digits[(n % 10) + 1]>>

\* s.padStart(k, "0")
RECURSIVE PadStart(_, _)
PadStart(s, k) == IF Len(s) >= k THEN s ELSE PadStart(<<"0">> \o s, k)

\* `${y}-${String(m0 + 1).padStart(2, "0")}-${String(d).padStart(2, "0")}`
isoFor(y, m0, d) ==
    ToStr(y) \o <<"-">> \o PadStart(ToStr(m0 + 1), 2) \o <<"-">>
             \o PadStart(ToStr(d), 2)

----------------------------------------------------------------------------
(* JavaScript Date *)

\* Day number (days since 1970-01-01) of the civil date y-m-d, m in 1..12
DaysFromCivil(y, m, d) ==
    LET yy  == IF m <= 2 THEN y - 1 ELSE y
        era == yy \div 400
        yoe == yy - era * 400
        mp  == IF m > 2 THEN m - 3 ELSE m + 9
        doy == (153 * mp + 2) \div 5 + d - 1
        doe == yoe * 365 + yoe \div 4 - yoe \div 100 + doy
    IN  era * 146097 + doe - 719468

\* The civil date of a day number
CivilFromDays(z) ==
    LET zz  == z + 719468
        era == zz \div 146097
        doe == zz - era * 146097
        yoe == (doe - doe \div 1460 + doe \div 36524 - doe \div 146096) \div 365
        doy == doe - (365 * yoe + yoe \div 4 - yoe \div 100)
        mp  == (5 * doy + 2) \div 153
        d   == doy - (153 * mp + 2) \div 5 + 1
        m   == IF mp < 10 THEN mp + 3 ELSE mp - 9
        y   == yoe + era * 400 + (IF m <= 2 THEN 1 ELSE 0)
    IN  [y |-> y, m |-> m, d |-> d]

\* ECMAScript MakeDay(year, month, date): month may exceed 0..11 and date may
\* lie outside the month
MakeDay(y, m0, d) ==
    DaysFromCivil(y + (m0 \div 12), (m0 % 12) + 1, 1) + d - 1

\* ECMAScript WeekDay: 1970-01-01 is a Thursday
WeekDay(day) == (day + 4) % 7

NaN == [nan |-> TRUE, t |-> 0]

DateOf(t) == [nan |-> FALSE, t |-> t]

\* Local day number and minute of the day of a time value
LocalDay(t, off) == (t + off) \div 1440

LocalMinute(t, off) == (t + off) % 1440

\* new Date(y, m0, d): local midnight
NewDate(y, m0, d, off) == DateOf(MakeDay(y, m0, d) * 1440 - off)

\* Date.prototype.getDay (local)
getDay(dt, off) == WeekDay(LocalDay(dt.t, off))

\* Date.prototype.getDate (local)
getDate(dt, off) == CivilFromDays(LocalDay(dt.t, off)).d

\* Date.prototype.setDate(n) (local)
setDate(dt, n, off) ==
    LET c == CivilFromDays(LocalDay(dt.t, off))
    IN  DateOf(MakeDay(c.y, c.m - 1, n) * 1440
               + LocalMinute(dt.t, off) - off)

\* Date.prototype.toISOString().slice(0, 10): the UTC date
toISODate(dt) ==
    LET c == CivilFromDays(dt.t \div 1440)
    IN  PadStart(ToStr(c.y), 4) \o <<"-">> \o PadStart(ToStr(c.m), 2)
            \o <<"-">> \o PadStart(ToStr(c.d), 2)

\* s has the shape YYYY-MM-DD
IsIsoShape(s) ==
    /\ Len(s) = 10
    /\ \A i \in {1, 2, 3, 4, 6, 7, 9, 10} : IsDigit(s[i])
    /\ s[5] = "-" /\ s[8] = "-"

IsoYear(s) == DigitVal(s[1]) * 1000 + DigitVal(s[2]) * 100
              + DigitVal(s[3]) * 10 + DigitVal(s[4])

IsoMonth(s) == DigitVal(s[6]) * 10 + DigitVal(s[7])

IsoDay(s) == DigitVal(s[9]) * 10 + DigitVal(s[10])

\* Number of days of month m0 (0..11) of year y
DaysInMonth(y, m0) == MakeDay(y, m0 + 1, 1) - MakeDay(y, m0, 1)

\* new Date(s + "T00:00:00"): a date-time without offset is local time.  A
\* string that is not YYYY-MM-DD with month 01..12 and day 01..31 gives an
\* Invalid Date; a day in 01..31 that the month does not have gives an
\* Invalid Date or runs into the next month, as the engine has it.
ParseLocalMidnight(s, off, lax) ==
    IF /\ IsIsoShape(s)
       /\ IsoMonth(s) \in 1..12
       /\ IsoDay(s) \in 1..31
       /\ (lax \/ IsoDay(s) <= DaysInMonth(IsoYear(s), IsoMonth(s) - 1))
    THEN DateOf(MakeDay(IsoYear(s), IsoMonth(s) - 1, IsoDay(s)) * 1440
                - off)
    ELSE NaN

\* a <= b on Dates: false when either is NaN
DateLeq(a, b) == ~a.nan /\ ~b.nan /\ a.t <= b.t

----------------------------------------------------------------------------
(* Strings of leave types and labels *)

Upper == <<"A", "B", "C", "D", "E", "F", "G", "H", "I", "J", "K", "L", "M",
           "N", "O", "P", "Q", "R", "S", "T", "U", "V", "W", "X", "Y", "Z">>

Lower == <<"a", "b", "c", "d", "e", "f", "g", "h", "i", "j", "k", "l", "m",
           "n", "o", "p", "q", "r", "s", "t", "u", "v", "w", "x", "y", "z">>

LowerChar(c) == IF \E i \in 1..26 : Upper[i] = c
                THEN Lower[CHOOSE i \in 1..26 : Upper[i] = c]
                ELSE c

\* String.prototype.toLowerCase
toLowerCase(s) == [i \in 1..Len(s) |-> LowerChar(s[i])]

\* String.prototype.includes
includes(s, sub) ==
    \E i \in 0..(Len(s) - Len(sub)) :
        \A j \in 1..Len(sub) : s[i + j] = sub[j]

\* Array.prototype.join on an array of strings
RECURSIVE join(_, _)
join(ss, sep) ==
    IF Len(ss) = 0 THEN <<>>
    ELSE IF Len(ss) = 1 THEN ss[1]
    ELSE ss[1] \o sep \o join(Tail(ss), sep)

----------------------------------------------------------------------------
(* monthGrid *)

GridCells == 42

\* { iso: "" }: the optional fields are undefined
BlankCell == [iso |-> <<>>, dayNumber |-> 0, attendance |-> <<>>,
              leaves |-> <<>>, holiday |-> <<>>, isSunday |-> FALSE]

\* { iso, dayNumber: d }
DayCell(iso, d) == [BlankCell EXCEPT !.iso = iso, !.dayNumber = d]

\* Mutant: the week is taken to start on Monday
firstDayIndex_MondayFirst(y, m0, off) ==
    (getDay(NewDate(y, m0, 1, off), off) + 6) % 7

\* new Date(year, month, 1).getDay()
firstDayIndex(y, m0, off) == getDay(NewDate(y, m0, 1, off), off)

\* Mutant: day 0 of the displayed month, which is the previous month's last day
totalDays_PreviousMonth(y, m0, off) == getDate(NewDate(y, m0, 0, off), off)

\* new Date(year, month + 1, 0).getDate()
totalDays(y, m0, off) == getDate(NewDate(y, m0 + 1, 0, off), off)

\* for (let i = 0; i < firstDayIndex; i++) days.push({ iso: "" })
LeadingBlanks(y, m0, off) ==
    [i \in 1..firstDayIndex(y, m0, off) |-> BlankCell]

\* for (let d = 1; d <= totalDays; d++) days.push({ iso, dayNumber: d })
FillDays(y, m0, off) ==
    [d \in 1..totalDays(y, m0, off) |-> DayCell(isoFor(y, m0, d), d)]

\* Mutant: the grid is padded to five rows only
PadRows_FiveRows(days) ==
    days \o [i \in 1..(35 - Len(days)) |-> BlankCell]

\* while (days.length < 42) days.push({ iso: "" }): one blank cell for every
\* length from days.length up to 41
PadRows(days) ==
    days \o [i \in 1..(GridCells - Len(days)) |-> BlankCell]

\* mapByIso.has(key): blank cells are not in the map
MapHas(days, key) ==
    \E i \in 1..Len(days) : days[i].iso # <<>> /\ days[i].iso = key

\* Index in days of mapByIso.get(key): a later set() replaces an earlier one
MapGet(days, key) ==
    CHOOSE i \in 1..Len(days) :
        /\ days[i].iso # <<>> /\ days[i].iso = key
        /\ \A j \in 1..Len(days) :
              (days[j].iso # <<>> /\ days[j].iso = key) => j <= i

\* Mutant: a holiday is matched on the day of the month only
RECURSIVE AttachHolidays_DayOnly(_, _)
AttachHolidays_DayOnly(days, hs) ==
    IF hs = <<>> THEN days
    ELSE LET h == Head(hs)
         IN  AttachHolidays_DayOnly(
                 [i \in 1..Len(days) |->
                     IF days[i].iso # <<>> /\ Len(h.date) = 10
                        /\ SubSeq(days[i].iso, 9, 10) = SubSeq(h.date, 9, 10)
                     THEN [days[i] EXCEPT !.holiday = <<h>>]
                     ELSE days[i]],
                 Tail(hs))

\* holidays.forEach(h => { if (has(h.date)) get(h.date).holiday = h })
RECURSIVE AttachHolidays(_, _)
AttachHolidays(days, hs) ==
    IF hs = <<>> THEN days
    ELSE LET h == Head(hs)
         IN  AttachHolidays(
                 IF MapHas(days, h.date)
                 THEN [days EXCEPT ![MapGet(days, h.date)].holiday = <<h>>]
                 ELSE days,
                 Tail(hs))

\* Mutant: a cell keeps the first record of its date
RECURSIVE AttachAttendance_FirstWins(_, _)
AttachAttendance_FirstWins(days, as) ==
    IF as = <<>> THEN days
    ELSE LET a == Head(as)
         IN  AttachAttendance_FirstWins(
                 IF MapHas(days, a.date)
                    /\ days[MapGet(days, a.date)].attendance = <<>>
                 THEN [days EXCEPT ![MapGet(days, a.date)].attendance = <<a>>]
                 ELSE days,
                 Tail(as))

\* attendance.forEach(a => { if (has(a.date)) get(a.date).attendance = a })
RECURSIVE AttachAttendance(_, _)
AttachAttendance(days, as) ==
    IF as = <<>> THEN days
    ELSE LET a == Head(as)
         IN  AttachAttendance(
                 IF MapHas(days, a.date)
                 THEN [days EXCEPT ![MapGet(days, a.date)].attendance = <<a>>]
                 ELSE days,
                 Tail(as))

\* for (let d = new Date(from); d <= to; d.setDate(d.getDate() + 1)) { ... }
RECURSIVE ExpandLeave(_, _, _, _, _)
ExpandLeave(days, L, d, to, off) ==
    IF ~DateLeq(d, to) THEN days
    ELSE LET iso == toISODate(d)
         IN  ExpandLeave(
                 IF MapHas(days, iso)
                 THEN [days EXCEPT ![MapGet(days, iso)].leaves =
                                        Append(@, L)]
                 ELSE days,
                 L, setDate(d, getDate(d, off) + 1, off), to, off)

\* Mutant: only approved leaves are expanded
RECURSIVE AttachLeaves_ApprovedOnly(_, _, _, _)
AttachLeaves_ApprovedOnly(days, ls, off, lax) ==
    IF ls = <<>> THEN days
    ELSE LET L    == Head(ls)
             from == ParseLocalMidnight(L.fromDate, off, lax)
             to   == ParseLocalMidnight(L.toDate, off, lax)
         IN  AttachLeaves_ApprovedOnly(
                 IF L.status = "approved"
                 THEN ExpandLeave(days, L, from, to, off) ELSE days,
                 Tail(ls), off, lax)

\* leaves.forEach(L => { from, to, loop })
RECURSIVE AttachLeaves(_, _, _, _)
AttachLeaves(days, ls, off, lax) ==
    IF ls = <<>> THEN days
    ELSE LET L    == Head(ls)
             from == ParseLocalMidnight(L.fromDate, off, lax)
             to   == ParseLocalMidnight(L.toDate, off, lax)
         IN  AttachLeaves(ExpandLeave(days, L, from, to, off), Tail(ls), off,
                          lax)

\* Mutant: the weekday is read in UTC (getUTCDay) instead of local time
IsSundayIso_UtcDay(iso, off, lax) ==
    LET dt == ParseLocalMidnight(iso, off, lax)
    IN  ~dt.nan /\ WeekDay(dt.t \div 1440) = 0

\* new Date(iso + "T00:00:00").getDay() === 0
IsSundayIso(iso, off, lax) ==
    LET dt == ParseLocalMidnight(iso, off, lax)
    IN  ~dt.nan /\ getDay(dt, off) = 0

\* Mutant: a day that has a holiday is not flagged
FlagSundays_UnlessHoliday(days, off, lax) ==
    [i \in 1..Len(days) |->
        IF days[i].iso = <<>> THEN days[i]
        ELSE [days[i] EXCEPT !.isSunday =
                                 /\ days[i].holiday = <<>>
                                 /\ IsSundayIso(days[i].iso, off, lax)]]

\* mapByIso.forEach((v, iso) => { v.isSunday = dow === 0 })
FlagSundays(days, off, lax) ==
    [i \in 1..Len(days) |->
        IF days[i].iso = <<>> THEN days[i]
        ELSE [days[i] EXCEPT !.isSunday =
                                 IsSundayIso(days[i].iso, off, lax)]]

\* The useMemo body of monthGrid
BuildGrid(y, m0, att, lvs, hols, off, lax) ==
    LET days0 == PadRows(LeadingBlanks(y, m0, off) \o FillDays(y, m0, off))
        days1 == AttachHolidays(days0, hols)
        days2 == AttachAttendance(days1, att)
        days3 == AttachLeaves(days2, lvs, off, lax)
    IN  FlagSundays(days3, off, lax)

----------------------------------------------------------------------------
(* getPriorityForDay and stats *)

\* Mutant: the type is searched without lowering its case
isWfh_CaseSensitive(ls) ==
    \E i \in 1..Len(ls) : includes(ls[i].type, <<"w", "f", "h">>)

\* day.leaves.some(l => l.type?.toLowerCase().includes("wfh"))
isWfh(ls) ==
    \E i \in 1..Len(ls) : includes(toLowerCase(ls[i].type), <<"w", "f", "h">>)

\* day.attendance && day.attendance.status === s
AttendanceIs(day, s) ==
    day.attendance # <<>> /\ day.attendance[1].status = s

\* The objects getPriorityForDay returns
HolidayResult(day) ==
    [type |-> "holiday", label |-> day.holiday[1].name,
     colorClass |-> "text-amber-600", Icon |-> "Star"]

SundayResult ==
    [type |-> "sunday", label |-> <<"S", "u", "n", "d", "a", "y">>,
     colorClass |-> "text-muted-foreground", Icon |-> "Sun"]

LeaveResult(day) ==
    [type |-> "leave",
     label |-> join([i \in 1..Len(day.leaves) |-> day.leaves[i].type],
                    <<",", " ">>),
     colorClass |-> "text-blue-600",
     Icon |-> IF isWfh(day.leaves) THEN "Home" ELSE "CalendarX"]

AbsentResult ==
    [type |-> "absent", label |-> <<"A", "b", "s", "e", "n", "t">>,
     colorClass |-> "text-rose-600", Icon |-> "XCircle"]

HalfDayResult ==
    [type |-> "half-day", label |-> <<"H", "a", "l", "f", " ", "D", "a", "y">>,
     colorClass |-> "text-amber-600", Icon |-> "Clock"]

PresentResult ==
    [type |-> "present", label |-> <<"P", "r", "e", "s", "e", "n", "t">>,
     colorClass |-> "text-emerald-600", Icon |-> "CheckCircle"]

\* Rules 4 to 6 and the default, as the mutants below share them
AttendanceRules(day) ==
    IF AttendanceIs(day, "absent") THEN <<AbsentResult>>
    ELSE IF AttendanceIs(day, "half-day") THEN <<HalfDayResult>>
    ELSE IF AttendanceIs(day, "present") THEN <<PresentResult>>
    ELSE <<>>

\* Mutant: the Sunday rule is tried before the holiday rule
getPriorityForDay_SundayFirst(day) ==
    IF day.iso = <<>> THEN <<>>
    ELSE IF day.isSunday THEN <<SundayResult>>
    ELSE IF day.holiday # <<>> THEN <<HolidayResult(day)>>
    ELSE IF Len(day.leaves) > 0 THEN <<LeaveResult(day)>>
    ELSE AttendanceRules(day)

\* Mutant: the holiday's label is a fixed word instead of the holiday's name
getPriorityForDay_HolidayLabel(day) ==
    IF day.iso = <<>> THEN <<>>
    ELSE IF day.holiday # <<>>
    THEN <<[HolidayResult(day) EXCEPT
                !.label = <<"H", "o", "l", "i", "d", "a", "y">>]>>
    ELSE IF day.isSunday THEN <<SundayResult>>
    ELSE IF Len(day.leaves) > 0 THEN <<LeaveResult(day)>>
    ELSE AttendanceRules(day)

\* Mutant: the leave rule is tried before the Sunday rule
getPriorityForDay_LeaveBeforeSunday(day) ==
    IF day.iso = <<>> THEN <<>>
    ELSE IF day.holiday # <<>> THEN <<HolidayResult(day)>>
    ELSE IF Len(day.leaves) > 0 THEN <<LeaveResult(day)>>
    ELSE IF day.isSunday THEN <<SundayResult>>
    ELSE AttendanceRules(day)

\* Mutant: the attendance rules are tried before the leave rule
getPriorityForDay_AttendanceFirst(day) ==
    IF day.iso = <<>> THEN <<>>
    ELSE IF day.holiday # <<>> THEN <<HolidayResult(day)>>
    ELSE IF day.isSunday THEN <<SundayResult>>
    ELSE IF AttendanceRules(day) # <<>> THEN AttendanceRules(day)
    ELSE IF Len(day.leaves) > 0 THEN <<LeaveResult(day)>>
    ELSE <<>>

\* The result is <<>> for null, else <<the returned object>>
getPriorityForDay(day) ==
    IF day.iso = <<>> THEN <<>>
    ELSE IF day.holiday # <<>> THEN <<HolidayResult(day)>>
    ELSE IF day.isSunday THEN <<SundayResult>>
    ELSE IF Len(day.leaves) > 0 THEN <<LeaveResult(day)>>
    ELSE IF AttendanceIs(day, "absent") THEN <<AbsentResult>>
    ELSE IF AttendanceIs(day, "half-day") THEN <<HalfDayResult>>
    ELSE IF AttendanceIs(day, "present") THEN <<PresentResult>>
    ELSE <<>>

\* p?.type === t
TypeIs(p, t) == p # <<>> /\ p[1].type = t

\* The cells the forEach in stats does not return early from
DatedCells(grid) == {i \in 1..Len(grid) : grid[i].iso # <<>>}

\* Mutant: present is counted from the attendance record, not from the
\* resolved status
ComputeStats_ByRecord(grid) ==
    LET p == [i \in 1..Len(grid) |-> getPriorityForDay(grid[i])]
        n == DatedCells(grid)
    IN  [totalDays     |-> Cardinality(n),
         present       |-> Cardinality({i \in n : AttendanceIs(grid[i], "present")}),
         absent        |-> Cardinality({i \in n : TypeIs(p[i], "absent")}),
         half          |-> Cardinality({i \in n : TypeIs(p[i], "half-day")}),
         leaveDays     |-> Cardinality({i \in n : TypeIs(p[i], "leave")}),
         holidaysCount |-> Cardinality({i \in n : TypeIs(p[i], "holiday")}),
         sundays       |-> Cardinality({i \in n : grid[i].isSunday})]

\* The useMemo body of stats: each counter is incremented once for every
\* dated cell that satisfies its condition
ComputeStats(grid) ==
    LET p == [i \in 1..Len(grid) |-> getPriorityForDay(grid[i])]
        n == DatedCells(grid)
    IN  [totalDays     |-> Cardinality(n),
         present       |-> Cardinality({i \in n : TypeIs(p[i], "present")}),
         absent        |-> Cardinality({i \in n : TypeIs(p[i], "absent")}),
         half          |-> Cardinality({i \in n : TypeIs(p[i], "half-day")}),
         leaveDays     |-> Cardinality({i \in n : TypeIs(p[i], "leave")}),
         holidaysCount |-> Cardinality({i \in n : TypeIs(p[i], "holiday")}),
         sundays       |-> Cardinality({i \in n : grid[i].isSunday})]

----------------------------------------------------------------------------
(* The backend's queries *)

\* UTF-8 code of the characters that occur in dates and document ids
CharCode(c) == IF c = "-" THEN 45 ELSE 48 + DigitVal(c)

\* Byte-wise string order
RECURSIVE StrLess(_, _)
StrLess(a, b) ==
    IF b = <<>> THEN FALSE
    ELSE IF a = <<>> THEN TRUE
    ELSE IF CharCode(Head(a)) # CharCode(Head(b))
    THEN CharCode(Head(a)) < CharCode(Head(b))
    ELSE StrLess(Tail(a), Tail(b))

\* Order of (key, id) pairs: by key, ties by document id
PairLess(k1, id1, k2, id2) ==
    StrLess(k1, k2) \/ (k1 = k2 /\ StrLess(id1, id2))

QueryLimit == 500

\* limit(n)
Limit(docs, n) == IF Len(docs) > n THEN SubSeq(docs, 1, n) ELSE docs

\* A field that the document does not have: undefined in the client
Undefined == <<"undefined">>

\* where userId == uid, orderBy("date", "desc"), limit(500); orderBy leaves
\* out the documents that lack the field
RECURSIVE QueryAttendance(_)
QueryAttendance(S) ==
    LET T == {x \in S : x.date # Undefined}
    IN  IF T = {} THEN <<>>
        ELSE LET top == CHOOSE x \in T :
                            \A z \in T \ {x} :
                                PairLess(z.date, z.id, x.date, x.id)
             IN  Limit(<<top>> \o QueryAttendance(T \ {top}), QueryLimit)

\* where userId == uid, orderBy("fromDate", "desc"), limit(500); orderBy
\* leaves out the documents that lack the field
RECURSIVE QueryLeaves(_)
QueryLeaves(S) ==
    LET T == {x \in S : x.fromDate # Undefined}
    IN  IF T = {} THEN <<>>
        ELSE LET top == CHOOSE x \in T :
                            \A z \in T \ {x} :
                                PairLess(z.fromDate, z.id, x.fromDate, x.id)
             IN  Limit(<<top>> \o QueryLeaves(T \ {top}), QueryLimit)

\* getDocs(collection(db, "holidays")): in document id order
RECURSIVE QueryHolidays(_)
QueryHolidays(S) ==
    IF S = {} THEN <<>>
    ELSE LET first == CHOOSE x \in S : \A z \in S \ {x} : StrLess(x.id, z.id)
         IN  <<first>> \o QueryHolidays(S \ {first})

----------------------------------------------------------------------------
(* The documents the backend may hold, and the clients *)

D0310 == <<"2", "0", "2", "4", "-", "0", "3", "-", "1", "0">>  \* a Sunday
D0311 == <<"2", "0", "2", "4", "-", "0", "3", "-", "1", "1">>
D0312 == <<"2", "0", "2", "4", "-", "0", "3", "-", "1", "2">>
D0313 == <<"2", "0", "2", "4", "-", "0", "3", "-", "1", "3">>
D0331 == <<"2", "0", "2", "4", "-", "0", "3", "-", "3", "1">>  \* a Sunday
D0401 == <<"2", "0", "2", "4", "-", "0", "4", "-", "0", "1">>

AttDoc(id, date, status) == [id |-> id, date |-> date, status |-> status]

AttPool == {AttDoc(<<"1">>, D0310, "absent"),
            AttDoc(<<"2">>, D0310, "present"),
            AttDoc(<<"3">>, D0311, "present"),
            AttDoc(<<"4">>, D0311, "absent"),
            AttDoc(<<"5">>, D0312, "half-day"),
            AttDoc(<<"6">>, D0313, "wfh")}

LeaveDoc(id, type, from, to, status) ==
    [id |-> id, type |-> type, fromDate |-> from, toDate |-> to,
     status |-> status]

CasualLeave == <<"C", "a", "s", "u", "a", "l", " ", "L", "e", "a", "v", "e">>

WorkFromHome == <<"W", "o", "r", "k", " ", "F", "r", "o", "m", " ",
                  "H", "o", "m", "e", " ", "(", "W", "F", "H", ")">>

SickLeave == <<"S", "i", "c", "k", " ", "L", "e", "a", "v", "e">>

LeavePool == {LeaveDoc(<<"1">>, CasualLeave, D0310, D0312, "approved"),
              LeaveDoc(<<"2">>, WorkFromHome, D0311, D0311, "pending"),
              LeaveDoc(<<"3">>, SickLeave, D0331, D0401, "rejected")}

HolidayDoc(id, date, name) == [id |-> id, date |-> date, name |-> name]

HolidayPool == {HolidayDoc(<<"1">>, D0310, <<"F", "a", "i", "r">>),
                HolidayDoc(<<"2">>, D0311, <<"H", "o", "l", "i">>)}

\* Documents whose dates are missing, are no dates, or are in the wrong order
D0230 == <<"2", "0", "2", "4", "-", "0", "2", "-", "3", "0">>  \* no such day
D0302 == <<"2", "0", "2", "4", "-", "0", "3", "-", "0", "2">>
D1301 == <<"2", "0", "2", "4", "-", "1", "3", "-", "0", "1">>  \* no such month

BadAttPool == {AttDoc(<<"3">>, D0311, "present"),
               AttDoc(<<"7">>, Undefined, "present"),
               AttDoc(<<"8">>, D0230, "absent")}

BadLeavePool == {LeaveDoc(<<"2">>, WorkFromHome, D0311, D0311, "pending"),
                 LeaveDoc(<<"4">>, SickLeave, D0230, D0302, "approved"),
                 LeaveDoc(<<"5">>, CasualLeave, D0312, D0310, "approved"),
                 LeaveDoc(<<"6">>, CasualLeave, D0311, Undefined, "pending"),
                 LeaveDoc(<<"7">>, WorkFromHome, <<>>, D0312, "approved"),
                 LeaveDoc(<<"8">>, SickLeave, Undefined, D0312, "approved")}

BadHolidayPool == {HolidayDoc(<<"3">>, Undefined, <<"L", "o", "s", "t">>),
                   HolidayDoc(<<"4">>, D1301, <<"V", "o", "i", "d">>)}

\* A backend that knows about 11 March 2024 only, and holds a holiday whose
\* date is the empty string
DetailAttPool == {a \in AttPool : a.date = D0311}

DetailLeavePool == {L \in LeavePool : L.fromDate = D0311}

DetailHolidayPool == {h \in HolidayPool : h.date = D0311}
                         \cup {HolidayDoc(<<"5">>, <<>>, <<"G", "a", "p">>)}

MaxAtt == 2
MaxLeaves == 2
MaxHol == 1

AtMost(S, n) == {T \in SUBSET S : Cardinality(T) <= n}

\* Offsets of the clients: New York (winter), UTC, India
TZ == {-300, 0, 330}

\* The clients' current (year, month) in the data-centred specification
Nows == {<<2024, 2>>, <<2024, 3>>}

\* The clients' current (year, month) in the navigation specification
NowsGrid == {<<2024, 2>>, <<2100, 0>>}

YearSpan == 3

\* for (let y = cy - 3; y <= cy + 3; y++) arr.push(y)
yearOptions == (nowYear - YearSpan)..(nowYear + YearSpan)

----------------------------------------------------------------------------
(* The parts of the application and their states of rest *)

calendarVars == <<nowYear, nowMonth, tz, lenient, dbAtt, dbLeaves, dbHol,
                  year, month, attendance, leaves, holidays, loading, error,
                  selectedDay, pc, attData, leaveData, monthGrid, stats>>

authVars == <<currentUser, dbUsers, user, profile, authLoading, callbacks,
              signupPc>>

hrVars == <<screen, view, lastOp, subscribed>>

trackingVars == <<options, intervalRef, timers, pending, sinceUpdate>>

punchVars == <<dbPunch, dbLive, pAttendance, pLoading, punching, pError, pPc>>

regVars == <<dbReg, dbRegAtt, requests, regUpdatingId, decisions>>

expVars == <<dbExp, expenses, updatingId, updates>>

\* What the provider and the HR screens leave alone, what the punch page
\* with its tracking hook leaves alone, and so on
outsideAuth == <<calendarVars, trackingVars, punchVars, regVars, expVars>>

outsidePunch == <<calendarVars, authVars, hrVars, regVars, expVars>>

outsideReg == <<calendarVars, authVars, hrVars, trackingVars, punchVars,
                expVars>>

outsideExp == <<calendarVars, authVars, hrVars, trackingVars, punchVars,
                regVars>>

\* Everything but the calendar
app == <<authVars, hrVars, trackingVars, punchVars, regVars, expVars>>

AuthParked ==
    /\ currentUser = "" /\ dbUsers = <<>> /\ user = "" /\ profile = <<>>
    /\ authLoading = FALSE /\ callbacks = <<>> /\ signupPc = "idle"

HrParked ==
    /\ screen = "none" /\ view = "none" /\ lastOp = <<>>
    /\ subscribed = FALSE

TrackingParked ==
    /\ options = <<>> /\ intervalRef = 0 /\ timers = <<>> /\ pending = 0
    /\ sinceUpdate = 0

PunchParked ==
    /\ dbPunch = <<>> /\ dbLive = <<>> /\ pAttendance = <<>>
    /\ pLoading = FALSE /\ punching = FALSE /\ pError = "" /\ pPc = "idle"

RegParked ==
    /\ dbReg = <<>> /\ dbRegAtt = <<>> /\ requests = {}
    /\ regUpdatingId = <<>> /\ decisions = <<>>

ExpParked ==
    /\ dbExp = <<>> /\ expenses = <<>> /\ updatingId = <<>> /\ updates = <<>>

\* The screens of the approvals at rest
ApprovalsParked == RegParked /\ ExpParked

AppParked ==
    AuthParked /\ HrParked /\ TrackingParked /\ PunchParked
        /\ ApprovalsParked

----------------------------------------------------------------------------
(* The component *)

\* The state after the first render, for a client at `now` with offset off
\* and an engine that is lenient or not
Mounted(now, off, lax) ==
    /\ nowYear = now[1] /\ nowMonth = now[2] /\ tz = off /\ lenient = lax
    /\ year = now[1] /\ month = now[2]
    /\ attendance = <<>> /\ leaves = <<>> /\ holidays = <<>>
    /\ loading = FALSE /\ error = ""
    /\ selectedDay = <<>>
    /\ pc = "idle" /\ attData = <<>> /\ leaveData = <<>>
    /\ monthGrid = BuildGrid(now[1], now[2], <<>>, <<>>, <<>>, off, lax)
    /\ stats = ComputeStats(monthGrid)

\* The documents of these pools carry dates of the calendar, on which the
\* engines agree
Init ==
    /\ dbAtt \in AtMost(AttPool, MaxAtt)
    /\ dbLeaves \in AtMost(LeavePool, MaxLeaves)
    /\ dbHol \in AtMost(HolidayPool, MaxHol)
    /\ \E now \in Nows, off \in TZ : Mounted(now, off, TRUE)
    /\ AppParked

InitGrid ==
    /\ dbAtt = {} /\ dbLeaves = {} /\ dbHol = {}
    /\ \E now \in NowsGrid, off \in TZ, lax \in BOOLEAN :
          Mounted(now, off, lax)
    /\ AppParked

\* A client of either engine in March 2024 over a backend with bad dates
InitBadDates ==
    /\ dbAtt \in SUBSET BadAttPool
    /\ dbLeaves \in AtMost(BadLeavePool, MaxLeaves)
    /\ dbHol \in SUBSET BadHolidayPool
    /\ \E off \in TZ, lax \in BOOLEAN : Mounted(<<2024, 2>>, off, lax)
    /\ AppParked

\* A client in March 2024 over the backend of 11 March
InitDetail ==
    /\ dbAtt \in SUBSET DetailAttPool
    /\ dbLeaves \in SUBSET DetailLeavePool
    /\ dbHol \in SUBSET DetailHolidayPool
    /\ \E off \in TZ : Mounted(<<2024, 2>>, off, TRUE)
    /\ AppParked

env == <<nowYear, nowMonth, tz, lenient, dbAtt, dbLeaves, dbHol>>

\* Mutant: the pass reuses the cells of the previous grid, so that the leaves
\* pushed in the previous pass are still there
Render_CarryOver(y, m0, att, lvs, hols) ==
    LET g == BuildGrid(y, m0, att, lvs, hols, tz, lenient)
        carried == [i \in 1..Len(g) |->
                       IF monthGrid[i].iso = g[i].iso
                       THEN [g[i] EXCEPT !.leaves = monthGrid[i].leaves \o @]
                       ELSE g[i]]
    IN  /\ monthGrid' = carried
        /\ stats' = ComputeStats(carried)

\* Re-render: the memos follow their dependencies
Render(y, m0, att, lvs, hols) ==
    /\ monthGrid' = BuildGrid(y, m0, att, lvs, hols, tz, lenient)
    /\ stats' = ComputeStats(monthGrid')

\* fetchAll up to its first await
FetchStart ==
    /\ pc = "idle"
    /\ loading' = TRUE
    /\ error' = ""
    /\ pc' = "att"
    /\ UNCHANGED <<env, app, year, month, attendance, leaves, holidays,
                   selectedDay, attData, leaveData, monthGrid, stats>>

\* Mutant: the attendance is stored as soon as its read resolves
FetchAttendance_StoresEarly ==
    /\ pc = "att"
    /\ attData' = QueryAttendance(dbAtt)
    /\ attendance' = QueryAttendance(dbAtt)
    /\ pc' = "leave"
    /\ Render(year, month, QueryAttendance(dbAtt), leaves, holidays)
    /\ UNCHANGED <<env, app, year, month, leaves, holidays, loading, error,
                   selectedDay, leaveData>>

\* The attendance read resolves
FetchAttendance ==
    /\ pc = "att"
    /\ attData' = QueryAttendance(dbAtt)
    /\ pc' = "leave"
    /\ UNCHANGED <<env, app, year, month, attendance, leaves, holidays, loading,
                   error, selectedDay, leaveData, monthGrid, stats>>

\* The leaves read resolves
FetchLeaves ==
    /\ pc = "leave"
    /\ leaveData' = QueryLeaves(dbLeaves)
    /\ pc' = "hol"
    /\ UNCHANGED <<env, app, year, month, attendance, leaves, holidays, loading,
                   error, selectedDay, attData, monthGrid, stats>>

\* The holidays read resolves: the three setters, then finally
FetchHolidays ==
    /\ pc = "hol"
    /\ attendance' = attData
    /\ leaves' = leaveData
    /\ holidays' = QueryHolidays(dbHol)
    /\ loading' = FALSE
    /\ pc' = "idle"
    /\ attData' = <<>> /\ leaveData' = <<>>
    /\ Render(year, month, attData, leaveData, QueryHolidays(dbHol))
    /\ UNCHANGED <<env, app, year, month, error, selectedDay>>

\* One of the reads rejects: catch, then finally
FetchFail ==
    /\ pc \in {"att", "leave", "hol"}
    /\ error' = "Failed to load calendar data."
    /\ loading' = FALSE
    /\ pc' = "idle"
    /\ attData' = <<>> /\ leaveData' = <<>>
    /\ UNCHANGED <<env, app, year, month, attendance, leaves, holidays,
                   selectedDay, monthGrid, stats>>

\* onValueChange of the year select
setYear ==
    \E v \in yearOptions :
        /\ year' = v
        /\ Render(v, month, attendance, leaves, holidays)
        /\ UNCHANGED <<env, app, month, attendance, leaves, holidays, loading,
                       error, selectedDay, pc, attData, leaveData>>

\* onValueChange of the month select
setMonth ==
    \E v \in 0..11 :
        /\ month' = v
        /\ Render(year, v, attendance, leaves, holidays)
        /\ UNCHANGED <<env, app, year, attendance, leaves, holidays, loading,
                       error, selectedDay, pc, attData, leaveData>>

\* const openDay = (d) => setSelectedDay(d)
openDay(d) == selectedDay' = <<d>>

\* Mutant: the click handler opens every cell
onClickCell_AnyCell ==
    /\ selectedDay = <<>>
    /\ \E idx \in 1..Len(monthGrid) : openDay(monthGrid[idx])
    /\ UNCHANGED <<env, app, year, month, attendance, leaves, holidays, loading,
                   error, pc, attData, leaveData, monthGrid, stats>>

\* onClick={() => d.iso && openDay(d)} of the cell at idx.  While the panel
\* is open its backdrop (fixed inset-0) lies over the grid.
onClickCell ==
    /\ selectedDay = <<>>
    /\ \E idx \in 1..Len(monthGrid) :
          /\ monthGrid[idx].iso # <<>>
          /\ openDay(monthGrid[idx])
    /\ UNCHANGED <<env, app, year, month, attendance, leaves, holidays, loading,
                   error, pc, attData, leaveData, monthGrid, stats>>

\* const closeDay = () => setSelectedDay(null): the backdrop and the buttons
\* of the open panel
closeDay ==
    /\ selectedDay # <<>>
    /\ selectedDay' = <<>>
    /\ UNCHANGED <<env, app, year, month, attendance, leaves, holidays, loading,
                   error, pc, attData, leaveData, monthGrid, stats>>

Next == FetchStart \/ FetchAttendance \/ FetchLeaves \/ FetchHolidays
            \/ FetchFail

Spec == Init /\ [][Next]_vars

NextGrid == setYear \/ setMonth

SpecGrid == InitGrid /\ [][NextGrid]_vars

SpecBadDates == InitBadDates /\ [][Next]_vars

NextDetail == FetchStart \/ FetchAttendance \/ FetchLeaves \/ FetchHolidays
                  \/ FetchFail \/ onClickCell \/ closeDay

SpecDetail == InitDetail /\ [][NextDetail]_vars

----------------------------------------------------------------------------
(* The auth provider (src/src/contexts/AuthContext.tsx) *)

\* role: 'employee' | 'hr' of a users document
UserProfile(u, r) == [uid |-> u, role |-> r]

\* The accounts of the backend: a is of HR, b an employee, n is the one
\* that signup creates
SeedUsers == [u \in {"a", "b"} |->
                 IF u = "a" THEN UserProfile(u, "hr")
                 ELSE UserProfile(u, "employee")]

Accounts == {"a", "b"} \cup (IF signupPc = "idle" THEN {} ELSE {"n"})

\* profile?.role
RoleOf(p) == IF p = <<>> THEN "undefined" ELSE p[1].role

\* The callbacks of onAuthStateChanged that may be awaiting at one time
MaxCallbacks == 2

RemoveAt(s, i) == SubSeq(s, 1, i - 1) \o SubSeq(s, i + 1, Len(s))

----------------------------------------------------------------------------
(* The HR screens and their route *)

\* const isHr = profile?.role === 'hr'
isHr(r) == r = "hr"

\* What the route element renders for its children
ProtectedRoute(ld, u, p, requireHR) ==
    IF ld THEN "spinner"
    ELSE IF u = "" THEN "login"
    ELSE IF requireHR /\ RoleOf(p) # "hr" THEN "home"
    ELSE "children"

\* A screen: the function with a backend call that its effect runs ("" if
\* none), whether the effect begins with if (!isHr) return, the number of
\* hooks called after the return of the notice, whether the effect attaches
\* a listener, and the handlers with backend calls that the page offers
HrLeaveApprovals ==
    [name |-> "HrLeaveApprovals", effect |-> "fetchLeaves", guarded |-> TRUE,
     afterGate |-> 0, subscribes |-> FALSE,
     handlers |-> {"fetchLeaves", "handleUpdateStatus"}]

HrTicketApprovals ==
    [name |-> "HrTicketApprovals", effect |-> "fetchTickets",
     guarded |-> TRUE, afterGate |-> 0, subscribes |-> FALSE,
     handlers |-> {"fetchTickets", "handleStatusChange"}]

HrExpenses ==
    [name |-> "HrExpenses", effect |-> "fetchExpenses", guarded |-> TRUE,
     afterGate |-> 0, subscribes |-> FALSE,
     handlers |-> {"fetchExpenses", "handleUpdateStatus"}]

\* Its effect is called after the return of the notice and has no guard of
\* its own
HrShifts ==
    [name |-> "HrShifts", effect |-> "loadAllShifts", guarded |-> FALSE,
     afterGate |-> 1, subscribes |-> FALSE,
     handlers |-> {"loadAllShifts", "handleSearchEmployee",
                   "handleSaveShift"}]

\* Its effect only resets a message
HrPayslipEntry ==
    [name |-> "HrPayslipEntry", effect |-> "", guarded |-> FALSE,
     afterGate |-> 0, subscribes |-> FALSE,
     handlers |-> {"handleSearchEmployee", "handleSave"}]

DailyAttendance ==
    [name |-> "DailyAttendance", effect |-> "fetchRows", guarded |-> TRUE,
     afterGate |-> 0, subscribes |-> FALSE, handlers |-> {"fetchRows"}]

HrAttendanceRegularisation ==
    [name |-> "HrAttendanceRegularisation", effect |-> "fetchRequests",
     guarded |-> TRUE, afterGate |-> 0, subscribes |-> FALSE,
     handlers |-> {"fetchRequests", "handleDecision"}]

\* The listener is attached once the map has loaded, which is taken to have
\* happened by the time the effect runs
LiveMapOla ==
    [name |-> "LiveMapOla", effect |-> "onSnapshot", guarded |-> TRUE,
     afterGate |-> 0, subscribes |-> TRUE, handlers |-> {}]

\* The HR screens; the routes of App put them inside <ProtectedRoute>
\* without requireHR
HrRoutes == {HrLeaveApprovals, HrTicketApprovals, HrExpenses, HrShifts,
             HrPayslipEntry, DailyAttendance, HrAttendanceRegularisation,
             LiveMapOla}

ScreenOf(n) == CHOOSE s \in HrRoutes : s.name = n

\* if (!isHr) return <notice>; return <page>
Gate(r) == IF isHr(r) THEN "page" ELSE "notice"

\* The effect of screen s issues its backend call after a render with role
\* r: it is registered only if the render reached it
EffectRuns(s, r) ==
    /\ s.effect # ""
    /\ s.afterGate > 0 => isHr(r)
    /\ s.guarded => isHr(r)

Call(s, fn, r) == <<[screen |-> s.name, fn |-> fn, role |-> r]>>

\* The screen s renders with role r and its effects run (their cleanup
\* first)
Commit(s, r) ==
    /\ view' = Gate(r)
    /\ lastOp' = IF EffectRuns(s, r) THEN Call(s, s.effect, r) ELSE lastOp
    /\ subscribed' = (s.subscribes /\ EffectRuns(s, r))

Unmount ==
    /\ screen' = "none" /\ view' = "none" /\ subscribed' = FALSE
    /\ UNCHANGED lastOp

\* The provider's state changed to ld, u, p: the route and the mounted
\* screen render again.  A render that calls fewer or more hooks than the
\* one before throws in React, and with no error boundary in the tree the
\* root is unmounted.
Rerender(ld, u, p) ==
    IF screen = "none" \/ view = "crashed" THEN UNCHANGED hrVars
    ELSE IF ProtectedRoute(ld, u, p, FALSE) # "children" THEN Unmount
    ELSE IF isHr(RoleOf(p)) = isHr(RoleOf(profile)) THEN UNCHANGED hrVars
    ELSE IF ScreenOf(screen).afterGate > 0
    THEN /\ view' = "crashed" /\ subscribed' = FALSE
         /\ UNCHANGED <<screen, lastOp>>
    ELSE /\ Commit(ScreenOf(screen), RoleOf(p))
         /\ UNCHANGED screen

----------------------------------------------------------------------------
(* The provider's actions *)

\* The page has loaded with u signed in from an earlier visit: the state
\* after the effect registered the listener and Firebase called it once
Loaded(u) ==
    /\ currentUser = u
    /\ user = u
    /\ profile = <<>>
    /\ authLoading = (u # "")
    /\ callbacks = IF u = "" THEN <<>> ELSE <<[uid |-> u, at |-> "getDoc"]>>

\* The callback of onAuthStateChanged for firebaseUser u, up to its first
\* await or, for null, to its end
authStateChanged(u) ==
    /\ user' = u
    /\ IF u # ""
       THEN /\ callbacks' = Append(callbacks, [uid |-> u, at |-> "getDoc"])
            /\ UNCHANGED <<profile, authLoading>>
       ELSE /\ profile' = <<>>
            /\ authLoading' = FALSE
            /\ UNCHANGED callbacks
    /\ Rerender(authLoading', u, profile')

\* signInWithEmailAndPassword resolves, in this tab or another one of the
\* browser
login ==
    \E u \in Accounts :
        /\ u # currentUser
        /\ Len(callbacks) < MaxCallbacks
        /\ view # "crashed"
        /\ currentUser' = u
        /\ authStateChanged(u)
        /\ UNCHANGED <<outsideAuth, dbUsers, signupPc>>

\* signOut resolves
logout ==
    /\ currentUser # ""
    /\ view # "crashed"
    /\ currentUser' = ""
    /\ authStateChanged("")
    /\ UNCHANGED <<outsideAuth, dbUsers, signupPc>>

\* signup up to its second await: createUserWithEmailAndPassword resolved
\* and signed the new user in
signup ==
    /\ signupPc = "idle"
    /\ Len(callbacks) < MaxCallbacks
    /\ view # "crashed"
    /\ currentUser' = "n"
    /\ authStateChanged("n")
    /\ signupPc' = "setDoc"
    /\ UNCHANGED <<outsideAuth, dbUsers>>

\* The setDoc of signup resolves
signupSetDoc ==
    /\ signupPc = "setDoc"
    /\ dbUsers' = [u \in DOMAIN dbUsers \cup {"n"} |->
                      IF u = "n" THEN UserProfile("n", "employee")
                      ELSE dbUsers[u]]
    /\ signupPc' = "done"
    /\ UNCHANGED <<outsideAuth, currentUser, user, profile, authLoading,
                   callbacks, hrVars>>

\* The getDoc of a callback resolves
getDocResolves ==
    \E i \in 1..Len(callbacks) :
        /\ callbacks[i].at = "getDoc"
        /\ view # "crashed"
        /\ IF callbacks[i].uid \in DOMAIN dbUsers
           THEN /\ profile' = <<dbUsers[callbacks[i].uid]>>
                /\ callbacks' = [callbacks EXCEPT ![i].at = "updateDoc"]
                /\ UNCHANGED authLoading
           ELSE /\ authLoading' = FALSE
                /\ callbacks' = RemoveAt(callbacks, i)
                /\ UNCHANGED profile
        /\ Rerender(authLoading', user, profile')
        /\ UNCHANGED <<outsideAuth, currentUser, dbUsers, user, signupPc>>

\* The updateDoc of a callback resolves: lastLoginAt is stored, which no
\* part of the model reads
updateDocResolves ==
    \E i \in 1..Len(callbacks) :
        /\ callbacks[i].at = "updateDoc"
        /\ view # "crashed"
        /\ authLoading' = FALSE
        /\ callbacks' = RemoveAt(callbacks, i)
        /\ Rerender(FALSE, user, profile)
        /\ UNCHANGED <<outsideAuth, currentUser, dbUsers, user, profile,
                       signupPc>>

\* The promise that a callback awaits rejects: the callback ends there
callbackRejects ==
    \E i \in 1..Len(callbacks) :
        /\ view # "crashed"
        /\ callbacks' = RemoveAt(callbacks, i)
        /\ UNCHANGED <<outsideAuth, currentUser, dbUsers, user, profile,
                       authLoading, signupPc, hrVars>>

\* The page is loaded again: the provider starts over with the user that
\* Firebase has kept
reload ==
    /\ signupPc # "setDoc"
    /\ user' = currentUser
    /\ profile' = <<>>
    /\ authLoading' = (currentUser # "")
    /\ callbacks' = IF currentUser = "" THEN <<>>
                    ELSE <<[uid |-> currentUser, at |-> "getDoc"]>>
    /\ Unmount
    /\ UNCHANGED <<outsideAuth, currentUser, dbUsers, signupPc>>

\* The calendar at rest, for the specifications of the other parts
CalendarParked ==
    /\ dbAtt = {} /\ dbLeaves = {} /\ dbHol = {}
    /\ Mounted(<<2024, 2>>, 0, TRUE)

InitAuth ==
    /\ CalendarParked
    /\ HrParked /\ TrackingParked /\ PunchParked /\ ApprovalsParked
    /\ dbUsers = SeedUsers
    /\ signupPc = "idle"
    /\ \E u \in {"", "a", "b"} : Loaded(u)

\* The provider with a backend that answers every call
NextAuth == login \/ logout \/ signup \/ signupSetDoc \/ getDocResolves
                \/ updateDocResolves

SpecAuth == InitAuth /\ [][NextAuth]_vars

----------------------------------------------------------------------------
(* The actions of the HR screens *)

\* The browser goes to the route of an HR screen, which mounts it
openScreen ==
    \E s \in HrRoutes :
        /\ view # "crashed"
        /\ screen # s.name
        /\ ProtectedRoute(authLoading, user, profile, FALSE) = "children"
        /\ screen' = s.name
        /\ Commit(s, RoleOf(profile))
        /\ UNCHANGED <<outsideAuth, authVars>>

\* navigate(-1) or navigate('/home')
leaveScreen ==
    /\ view \in {"notice", "page"}
    /\ Unmount
    /\ UNCHANGED <<outsideAuth, authVars>>

\* A button of the page calls a handler, whose backend calls are taken as
\* issued under the render that offered the button
callHandler ==
    /\ view = "page"
    /\ \E fn \in ScreenOf(screen).handlers :
          lastOp' = Call(ScreenOf(screen), fn, RoleOf(profile))
    /\ UNCHANGED <<outsideAuth, authVars, screen, view, subscribed>>

NextHr == login \/ logout \/ getDocResolves \/ updateDocResolves
              \/ callbackRejects \/ reload \/ openScreen \/ leaveScreen
              \/ callHandler

SpecHr == InitAuth /\ [][NextHr]_vars

----------------------------------------------------------------------------
(* The tracking hook (src/unnamed/part_006) *)

\* window.setInterval(updateLocation, 10 * 60 * 1000), in minutes
PeriodMinutes == 10

\* The timers that may run at one time
MaxTimers == 2

\* The requests for the position that may be unanswered at one time
MaxPending == 2

\* The options of a render; fields stands for employeeId, employeeName and
\* photoUrl
Options(en, uid, f) == [enabled |-> en, userId |-> uid, fields |-> f]

\* if (!enabled || !userId) of the effect
Tracks(o) == o.enabled /\ o.userId # ""

\* clearInterval(id)
clearInterval(tm, id) == [i \in DOMAIN tm \ {id} |-> tm[i]]

\* The cleanup that the last run of the effect returned, if it returned one:
\* if (intervalRef.current) clearInterval(intervalRef.current)
Cleanup ==
    IF options # <<>> /\ Tracks(options[1])
    THEN clearInterval(timers, intervalRef)
    ELSE timers

\* Mutant: the effect returns no cleanup
Effect_NoCleanup(o) ==
    IF ~Tracks(o)
    THEN /\ timers' = clearInterval(timers, intervalRef)
         /\ intervalRef' = 0
         /\ UNCHANGED <<pending, sinceUpdate>>
    ELSE \E id \in 1..MaxTimers :
            /\ id \notin DOMAIN timers /\ id # intervalRef
            /\ \A j \in 1..(id - 1) : j \in DOMAIN timers \/ j = intervalRef
            /\ pending < MaxPending
            /\ pending' = pending + 1
            /\ sinceUpdate' = 0
            /\ timers' = [i \in DOMAIN timers \cup {id} |->
                             IF i = id THEN PeriodMinutes ELSE timers[i]]
            /\ intervalRef' = id

\* The effect runs for the options o, after the cleanup of its last run:
\* either it clears the timer, or it calls updateLocation, which asks for
\* the position, and starts a timer under the next id of the browser
Effect(o) ==
    IF ~Tracks(o)
    THEN /\ timers' = clearInterval(Cleanup, intervalRef)
         /\ intervalRef' = 0
         /\ UNCHANGED <<pending, sinceUpdate>>
    ELSE \E id \in 1..MaxTimers :
            /\ id \notin DOMAIN Cleanup /\ id # intervalRef
            /\ \A j \in 1..(id - 1) : j \in DOMAIN Cleanup \/ j = intervalRef
            /\ pending < MaxPending
            /\ pending' = pending + 1
            /\ sinceUpdate' = 0
            /\ timers' = [i \in DOMAIN Cleanup \cup {id} |->
                             IF i = id THEN PeriodMinutes ELSE Cleanup[i]]
            /\ intervalRef' = id

\* useShiftTracking(o) in a render: the effect runs on mount and when one
\* of its dependencies changed
useShiftTracking(o) ==
    /\ options' = <<o>>
    /\ IF options = <<o>> THEN UNCHANGED <<intervalRef, timers, pending,
                                           sinceUpdate>>
       ELSE Effect(o)

\* The component of the hook unmounts
unmountHook ==
    /\ options # <<>>
    /\ options' = <<>>
    /\ timers' = Cleanup
    /\ intervalRef' = 0
    /\ UNCHANGED <<pending, sinceUpdate, punchVars, outsidePunch>>

\* A minute passes; getCurrentPosition has answered by then (timeout:
\* 10000).  The timers that are due call updateLocation.
Tick ==
    /\ pending = 0
    /\ LET due == {i \in DOMAIN timers : timers[i] = 1}
       IN  /\ timers' = [i \in DOMAIN timers |->
                            IF i \in due THEN PeriodMinutes
                            ELSE timers[i] - 1]
           /\ pending' = Cardinality(due)
           /\ sinceUpdate' = IF due # {} THEN 0
                             ELSE IF sinceUpdate > PeriodMinutes
                             THEN sinceUpdate
                             ELSE sinceUpdate + 1
    /\ UNCHANGED <<options, intervalRef, punchVars, outsidePunch>>

\* liveLocations/{uid}; lastUpdated is a serverTimestamp(), of which the
\* model keeps whether it is of today
LiveLocation(a, when) == <<[active |-> a, lastUpdated |-> when]>>

\* The position arrives and the callback's setDoc with active: true and
\* merge: true is applied
positionArrives ==
    /\ pending > 0
    /\ pending' = pending - 1
    /\ dbLive' = LiveLocation(TRUE, "today")
    /\ UNCHANGED <<options, intervalRef, timers, sinceUpdate, dbPunch,
                   pAttendance, pLoading, punching, pError, pPc,
                   outsidePunch>>

\* The position is refused or times out, or the setDoc rejects
positionFails ==
    /\ pending > 0
    /\ pending' = pending - 1
    /\ UNCHANGED <<options, intervalRef, timers, sinceUpdate, punchVars,
                   outsidePunch>>

\* A parent renders the hook with any options
render ==
    /\ \E en \in BOOLEAN, uid \in {"", "u"}, f \in {1, 2} :
          /\ options # <<Options(en, uid, f)>>
          /\ useShiftTracking(Options(en, uid, f))
    /\ UNCHANGED <<punchVars, outsidePunch>>

InitTracking ==
    /\ CalendarParked
    /\ AuthParked /\ HrParked /\ TrackingParked /\ PunchParked
    /\ ApprovalsParked

NextTracking == render \/ unmountHook \/ Tick \/ positionArrives
                    \/ positionFails

SpecTracking == InitTracking /\ [][NextTracking]_vars

----------------------------------------------------------------------------
(* The punch page (src/src/pages/attendance/Punch.tsx) *)

\* The times that a time field of the day's record may be written
MaxWrites == 2

\* The day's record: a time field is 0 while absent, else the number of
\* the serverTimestamp() it holds
AttendanceRecord(ci, co, st) ==
    [checkInTime |-> ci, checkOutTime |-> co, status |-> st]

hasCheckIn(att) == att # <<>> /\ att[1].checkInTime # 0

hasCheckOut(att) == att # <<>> /\ att[1].checkOutTime # 0

\* const isPunchedIn, const trackingEnabled
isPunchedIn(att) == hasCheckIn(att) /\ ~hasCheckOut(att)

buttonDisabled ==
    punching \/ (hasCheckIn(pAttendance) /\ hasCheckOut(pAttendance))
        \/ pLoading

LoadFailed == "Failed to load today attendance."

PunchInFailed == "Failed to punch in. Please try again."

PunchOutFailed == "Failed to punch out. Please try again."

\* The page renders with the record att and hands trackingEnabled to the
\* hook
PunchRender(att) == useShiftTracking(Options(isPunchedIn(att), "u", 1))

\* The page has mounted at the beginning of a day and fetchToday awaits its
\* read
InitPunch ==
    /\ CalendarParked
    /\ AuthParked /\ HrParked /\ ApprovalsParked
    /\ options = <<Options(FALSE, "u", 1)>>
    /\ intervalRef = 0 /\ timers = <<>> /\ pending = 0 /\ sinceUpdate = 0
    /\ dbPunch = <<>>
    /\ dbLive \in {<<>>, LiveLocation(FALSE, "earlier")}
    /\ pAttendance = <<>>
    /\ pLoading = TRUE /\ punching = FALSE /\ pError = "" /\ pPc = "fetch"

\* fetchToday up to its await
fetchToday ==
    /\ pError' = ""
    /\ pLoading' = TRUE
    /\ pPc' = "fetch"

\* The getDoc of fetchToday resolves; finally of fetchToday and, after a
\* punch, of handlePunch
fetchTodayResolves ==
    /\ pPc = "fetch"
    /\ pAttendance' = dbPunch
    /\ pLoading' = FALSE /\ punching' = FALSE /\ pPc' = "idle"
    /\ PunchRender(dbPunch)
    /\ UNCHANGED <<dbPunch, dbLive, pError, outsidePunch>>

\* The getDoc of fetchToday rejects
fetchTodayRejects ==
    /\ pPc = "fetch"
    /\ pError' = LoadFailed
    /\ pLoading' = FALSE /\ punching' = FALSE /\ pPc' = "idle"
    /\ UNCHANGED <<dbPunch, dbLive, pAttendance, trackingVars, outsidePunch>>

\* The button calls handlePunch, which runs to its first write; the
\* position and the address it awaits before change nothing here.  The
\* branch for a completed record is behind the disabled button.
handlePunch ==
    /\ pPc = "idle"
    /\ ~buttonDisabled
    /\ dbPunch # <<>> =>
          (dbPunch[1].checkInTime < MaxWrites
           /\ dbPunch[1].checkOutTime < MaxWrites)
    /\ pError' = ""
    /\ punching' = TRUE
    /\ pPc' = IF ~hasCheckIn(pAttendance) THEN "setDoc" ELSE "updateDoc"
    /\ UNCHANGED <<dbPunch, dbLive, pAttendance, pLoading, trackingVars,
                   outsidePunch>>

\* Punch in: setDoc with merge resolves, then fetchToday
punchInStored ==
    /\ pPc = "setDoc"
    /\ dbPunch' = IF dbPunch = <<>> THEN <<AttendanceRecord(1, 0, "working")>>
                  ELSE <<AttendanceRecord(dbPunch[1].checkInTime + 1,
                                          dbPunch[1].checkOutTime, "working")>>
    /\ fetchToday
    /\ UNCHANGED <<dbLive, pAttendance, punching, trackingVars, outsidePunch>>

\* Punch out: updateDoc of the record resolves
punchOutStored ==
    /\ pPc = "updateDoc"
    /\ dbPunch # <<>>
    /\ dbPunch' = <<AttendanceRecord(dbPunch[1].checkInTime,
                                     dbPunch[1].checkOutTime + 1, "present")>>
    /\ pPc' = "updateLive"
    /\ UNCHANGED <<dbLive, pAttendance, pLoading, punching, pError,
                   trackingVars, outsidePunch>>

\* Punch out: updateDoc of liveLocations/{uid} resolves, which takes an
\* existing document; then fetchToday
trackingStopped ==
    /\ pPc = "updateLive"
    /\ dbLive # <<>>
    /\ dbLive' = LiveLocation(FALSE, "today")
    /\ fetchToday
    /\ UNCHANGED <<dbPunch, pAttendance, punching, trackingVars,
                   outsidePunch>>

\* A write of handlePunch rejects: catch and finally
punchRejects ==
    /\ pPc \in {"setDoc", "updateDoc", "updateLive"}
    /\ pError' = IF pPc = "setDoc" THEN PunchInFailed ELSE PunchOutFailed
    /\ punching' = FALSE
    /\ pPc' = "idle"
    /\ UNCHANGED <<dbPunch, dbLive, pAttendance, pLoading, trackingVars,
                   outsidePunch>>

NextPunch == handlePunch \/ punchInStored \/ punchOutStored
                 \/ trackingStopped \/ punchRejects \/ fetchTodayResolves
                 \/ fetchTodayRejects \/ Tick \/ positionArrives
                 \/ positionFails

SpecPunch == InitPunch /\ [][NextPunch]_vars

----------------------------------------------------------------------------
(* The approval screens of HR: attendance regularisation and expenses *)

\* The handler calls of one screen that may be awaiting at one time
MaxInFlight == 2

RequestIds == {"r1", "r2"}

\* The screen has mounted as HR and fetchRequests has loaded the pending
\* requests; the day of a request has no attendance record or the one of
\* the punch page
InitReg ==
    /\ CalendarParked
    /\ AuthParked /\ HrParked /\ TrackingParked /\ PunchParked /\ ExpParked
    /\ dbReg = [r \in RequestIds |-> "pending"]
    /\ dbRegAtt \in [RequestIds -> {"none", "punched"}]
    /\ requests = RequestIds
    /\ regUpdatingId = <<>>
    /\ decisions = <<>>

\* A button of a listed request calls handleDecision, which runs to its
\* first await
handleDecision ==
    \E r \in requests, d \in {"approved", "rejected"} :
        /\ regUpdatingId # <<r>>
        /\ Len(decisions) < MaxInFlight
        /\ regUpdatingId' = <<r>>
        /\ decisions' = Append(decisions, [id |-> r, status |-> d,
                                           at |-> "updateDoc",
                                           exists |-> FALSE])
        /\ UNCHANGED <<dbReg, dbRegAtt, requests, outsideReg>>

\* updateDoc(regRef) resolves; a rejection ends here: the request leaves
\* the list, finally
regStored ==
    \E i \in 1..Len(decisions) :
        /\ decisions[i].at = "updateDoc"
        /\ dbReg' = [dbReg EXCEPT ![decisions[i].id] = decisions[i].status]
        /\ IF decisions[i].status = "approved"
           THEN /\ decisions' = [decisions EXCEPT ![i].at = "getDoc"]
                /\ UNCHANGED <<requests, regUpdatingId>>
           ELSE /\ decisions' = RemoveAt(decisions, i)
                /\ requests' = requests \ {decisions[i].id}
                /\ regUpdatingId' = <<>>
        /\ UNCHANGED <<dbRegAtt, outsideReg>>

\* getDoc(attendRef) resolves
attendanceRead ==
    \E i \in 1..Len(decisions) :
        /\ decisions[i].at = "getDoc"
        /\ decisions' =
              [decisions EXCEPT ![i].at = "write",
                                ![i].exists = dbRegAtt[decisions[i].id] # "none"]
        /\ UNCHANGED <<dbReg, dbRegAtt, requests, regUpdatingId, outsideReg>>

\* updateDoc or setDoc of the attendance record resolves: status present
\* with the requested times; the request leaves the list, finally
attendanceStored ==
    \E i \in 1..Len(decisions) :
        /\ decisions[i].at = "write"
        /\ decisions[i].exists => dbRegAtt[decisions[i].id] # "none"
        /\ dbRegAtt' = [dbRegAtt EXCEPT ![decisions[i].id] = "regularised"]
        /\ decisions' = RemoveAt(decisions, i)
        /\ requests' = requests \ {decisions[i].id}
        /\ regUpdatingId' = <<>>
        /\ UNCHANGED <<dbReg, outsideReg>>

\* The call that a decision awaits rejects: catch with its alert, finally
decisionRejects ==
    \E i \in 1..Len(decisions) :
        /\ decisions' = RemoveAt(decisions, i)
        /\ regUpdatingId' = <<>>
        /\ UNCHANGED <<dbReg, dbRegAtt, requests, outsideReg>>

NextReg == handleDecision \/ regStored \/ attendanceRead
               \/ attendanceStored \/ decisionRejects

SpecReg == InitReg /\ [][NextReg]_vars

ExpenseIds == {"e1", "e2"}

\* The buttons of an expense shown with status st
Offered(st) ==
    IF st = "pending" THEN {"rejected", "approved"}
    ELSE IF st = "approved" THEN {"paid"}
    ELSE {}

\* The screen has mounted as HR and fetchExpenses has loaded the expenses,
\* which handleSubmit of the employees' page created as pending
InitExp ==
    /\ CalendarParked
    /\ AuthParked /\ HrParked /\ TrackingParked /\ PunchParked /\ RegParked
    /\ dbExp = [e \in ExpenseIds |-> "pending"]
    /\ expenses = dbExp
    /\ updatingId = <<>>
    /\ updates = <<>>

\* A button of an expense calls handleUpdateStatus, which runs to its await
handleUpdateStatus ==
    \E e \in DOMAIN expenses :
        \E st \in Offered(expenses[e]) :
            /\ updatingId # <<e>>
            /\ Len(updates) < MaxInFlight
            /\ updatingId' = <<e>>
            /\ updates' = Append(updates, [id |-> e, status |-> st])
            /\ UNCHANGED <<dbExp, expenses, outsideExp>>

\* The oldest updateDoc resolves (the client sends its writes in order):
\* setExpenses, finally
statusStored ==
    /\ updates # <<>>
    /\ dbExp' = [dbExp EXCEPT ![Head(updates).id] = Head(updates).status]
    /\ expenses' = [expenses EXCEPT ![Head(updates).id] = Head(updates).status]
    /\ updatingId' = <<>>
    /\ updates' = Tail(updates)
    /\ UNCHANGED outsideExp

\* The oldest updateDoc rejects: catch with its alert, finally
statusRejects ==
    /\ updates # <<>>
    /\ updatingId' = <<>>
    /\ updates' = Tail(updates)
    /\ UNCHANGED <<dbExp, expenses, outsideExp>>

NextExp == handleUpdateStatus \/ statusStored \/ statusRejects

SpecExp == InitExp /\ [][NextExp]_vars

----------------------------------------------------------------------------
(* Vocabulary of the claims *)

Cells == 1..Len(monthGrid)

RealCells == {i \in Cells : monthGrid[i].iso # <<>>}

\* The resolved status of cell i: the type, or "none"
Resolved(i) ==
    LET p == getPriorityForDay(monthGrid[i])
    IN  IF p = <<>> THEN "none" ELSE p[1].type

\* The fixed order of the rules
Rank(t) == CASE t = "holiday"  -> 1
             [] t = "sunday"   -> 2
             [] t = "leave"    -> 3
             [] t = "absent"   -> 4
             [] t = "half-day" -> 5
             [] t = "present"  -> 6
             [] t = "none"     -> 7

\* The statuses whose fact is attached to a cell
Facts(c) ==
    (IF c.holiday # <<>> THEN {"holiday"} ELSE {})
    \cup (IF c.isSunday THEN {"sunday"} ELSE {})
    \cup (IF c.leaves # <<>> THEN {"leave"} ELSE {})
    \cup (IF c.attendance # <<>>
             /\ c.attendance[1].status \in {"absent", "half-day", "present"}
          THEN {c.attendance[1].status} ELSE {})
    \cup {"none"}

\* Number of cells before the first cell that has a date
LeadingBlankCount ==
    Cardinality({i \in Cells : \A j \in 1..i : monthGrid[j].iso = <<>>})

\* Weekday of a civil date by Sakamoto's method, Sunday = 0, m in 1..12
SakamotoOffsets == <<0, 3, 2, 5, 0, 3, 5, 1, 4, 6, 2, 4>>

TrueWeekday(y, m, d) ==
    LET yy == IF m < 3 THEN y - 1 ELSE y
    IN  (yy + yy \div 4 - yy \div 100 + yy \div 400 + SakamotoOffsets[m] + d) % 7

IsLeapYear(y) == (y % 4 = 0 /\ y % 100 # 0) \/ y % 400 = 0

\* Length of month m0 (0..11) of year y, from the calendar's table
MonthLength(y, m0) ==
    IF m0 = 1 THEN (IF IsLeapYear(y) THEN 29 ELSE 28)
    ELSE IF m0 \in {3, 5, 8, 10} THEN 30 ELSE 31

----------------------------------------------------------------------------
(* The claims *)

\* C1: every cell with a date resolves to exactly one status, "none"
\* included, and that status is the first in the order holiday > sunday >
\* leave > absent > half-day > present > none among those whose fact is
\* attached to the cell: no status is returned while a fact of higher
\* priority is attached.
C1_FirstMatchingRule ==
    \A i \in RealCells :
        /\ Resolved(i) \in Facts(monthGrid[i])
        /\ \A f \in Facts(monthGrid[i]) : Rank(Resolved(i)) <= Rank(f)

\* C1 witness: a fetched grid has a cell with three facts attached
C1_Witness ==
    \E i \in RealCells :
        /\ Cardinality(Facts(monthGrid[i])) >= 4
        /\ Resolved(i) = "holiday"

\* C2: the month grid has exactly 42 cells for every year and month 0..11.
C2_GridLength == month \in 0..11 /\ Len(monthGrid) = 42

\* C2 witness: February 2026 fills exactly four rows and is padded to six
C2_Witness ==
    /\ year = 2026 /\ month = 1
    /\ monthGrid[28].dayNumber = 28
    /\ \A i \in 29..42 : monthGrid[i].iso = <<>>

\* a <= b in byte-wise string order, which on ISO dates is the order of days
StrLeq(a, b) == a = b \/ StrLess(a, b)

\* Number of entries of a cell's leaves that are the document L
Occurrences(ls, L) == Cardinality({j \in 1..Len(ls) : ls[j] = L})

\* The cell's date lies in the leave's span
InSpan(L, c) == StrLeq(L.fromDate, c.iso) /\ StrLeq(c.iso, L.toDate)

\* C3: a leave with fromDate F <= toDate T is attached, once, to exactly the
\* cells of the displayed month whose date d satisfies F <= d <= T and to no
\* other cell, for every time-zone offset of the client; the leave
\* 2024-03-10..2024-03-12 is attached to the cells of 10, 11 and 12 March
\* 2024.
C3_LeaveSpan ==
    \A k \in 1..Len(leaves) : \A i \in RealCells :
        Occurrences(monthGrid[i].leaves, leaves[k]) =
            IF InSpan(leaves[k], monthGrid[i]) THEN 1 ELSE 0

\* C4: the number of leading blank cells is the weekday (Sunday = 0) of day 1
\* of the displayed month, and the first cell with a date is day 1; May 2024
\* starts on a Wednesday and has three leading blanks.
C4_LeadingBlanks ==
    /\ LeadingBlankCount = TrueWeekday(year, month + 1, 1)
    /\ monthGrid[LeadingBlankCount + 1].dayNumber = 1
    /\ (year = 2024 /\ month = 4) => LeadingBlankCount = 3

\* C4 witness: May 2024 is displayed with three leading blanks
C4_Witness ==
    /\ year = 2024 /\ month = 4
    /\ LeadingBlankCount = 3
    /\ monthGrid[4].iso = <<"2", "0", "2", "4", "-", "0", "5", "-", "0", "1">>

\* C5: after the leading blanks come the days 1..N of the month in ascending
\* order, one cell each, N being the month's length (29 for February of a
\* leap year), then only blank cells; stats.totalDays is N.
C5_DaysOfMonth ==
    LET n == MonthLength(year, month)
        b == LeadingBlankCount
    IN  /\ \A k \in 1..n :
              /\ monthGrid[b + k].dayNumber = k
              /\ monthGrid[b + k].iso = isoFor(year, month, k)
        /\ \A i \in Cells : (i <= b \/ i > b + n) => monthGrid[i] = BlankCell
        /\ stats.totalDays = n

\* C5 witness: February of the leap year 2024 has 29 cells, of 2100 has 28
C5_Witness ==
    /\ month = 1 /\ year \in {2024, 2100}
    /\ stats.totalDays = (IF year = 2024 THEN 29 ELSE 28)

\* C6: a cell with a holiday attached resolves to "holiday" labelled with the
\* holiday's name, whatever else is attached.
C6_HolidayOverrides ==
    \A i \in RealCells :
        monthGrid[i].holiday # <<>> =>
            LET p == getPriorityForDay(monthGrid[i])
            IN  /\ p # <<>>
                /\ p[1].type = "holiday"
                /\ p[1].label = monthGrid[i].holiday[1].name

\* C6 witness: a Sunday holiday with an attendance record resolves to the
\* holiday, and so does a holiday covered by a leave
C6_Witness ==
    \E i \in RealCells :
        /\ monthGrid[i].holiday # <<>>
        /\ monthGrid[i].isSunday
        /\ monthGrid[i].attendance # <<>>
        /\ monthGrid[i].leaves # <<>>
        /\ getPriorityForDay(monthGrid[i])[1].label = <<"F", "a", "i", "r">>

\* C7: a Sunday cell without a holiday resolves to "sunday" labelled
\* "Sunday", also when an attendance record or a leave is attached.
C7_SundayOverrides ==
    \A i \in RealCells :
        (monthGrid[i].isSunday /\ monthGrid[i].holiday = <<>>) =>
            LET p == getPriorityForDay(monthGrid[i])
            IN  /\ p # <<>>
                /\ p[1].type = "sunday"
                /\ p[1].label = <<"S", "u", "n", "d", "a", "y">>

\* C7 witness: a Sunday with an "absent" record and a leave, and no holiday
C7_Witness ==
    \E i \in RealCells :
        /\ monthGrid[i].isSunday /\ monthGrid[i].holiday = <<>>
        /\ AttendanceIs(monthGrid[i], "absent")
        /\ monthGrid[i].leaves # <<>>
        /\ Resolved(i) = "sunday"

\* C8: a cell that is neither a holiday nor a Sunday and has a leave attached
\* resolves to "leave" whatever its attendance record; a cell resolves to
\* absent, half-day or present only when no leave is attached.
C8_LeaveBeforeAttendance ==
    \A i \in RealCells :
        /\ (/\ monthGrid[i].holiday = <<>>
            /\ ~monthGrid[i].isSunday
            /\ Len(monthGrid[i].leaves) >= 1) => Resolved(i) = "leave"
        /\ Resolved(i) \in {"absent", "half-day", "present"}
               => monthGrid[i].leaves = <<>>

\* C8 witness: a weekday with a leave and an "absent" record resolves to
\* "leave", and another weekday without leave resolves from its record
C8_Witness ==
    /\ \E i \in RealCells :
          /\ AttendanceIs(monthGrid[i], "absent")
          /\ monthGrid[i].leaves # <<>>
          /\ Resolved(i) = "leave"
    /\ \E i \in RealCells : Resolved(i) = "half-day"

\* C9: stats.present is the number of cells with a date whose resolved status
\* is "present"; a cell whose record says present but which resolves to
\* holiday, sunday or leave is not counted.
C9_PresentCount ==
    /\ stats.present = Cardinality({i \in RealCells : Resolved(i) = "present"})
    /\ stats.present <=
           Cardinality({i \in RealCells : AttendanceIs(monthGrid[i], "present")
                                           /\ monthGrid[i].holiday = <<>>
                                           /\ ~monthGrid[i].isSunday
                                           /\ monthGrid[i].leaves = <<>>})

\* C9 witness: two records say present, one of them on a Sunday; one is
\* counted
C9_Witness ==
    /\ Cardinality({i \in RealCells : AttendanceIs(monthGrid[i], "present")}) = 2
    /\ stats.present = 1

\* Number of cells with a date whose resolved status is t
CountResolved(t) == Cardinality({i \in RealCells : Resolved(i) = t})

\* C10: each monthly count is the number of cells with a date whose resolved
\* status is that category, so a cell contributes to at most one count and
\* the six counts sum to at most totalDays; a Sunday that is also a holiday
\* is counted as a holiday day and not as a Sunday day.
C10_CountsAreReductions ==
    /\ stats.present = CountResolved("present")
    /\ stats.absent = CountResolved("absent")
    /\ stats.half = CountResolved("half-day")
    /\ stats.leaveDays = CountResolved("leave")
    /\ stats.holidaysCount = CountResolved("holiday")
    /\ stats.sundays = CountResolved("sunday")
    /\ stats.present + stats.absent + stats.half + stats.leaveDays
           + stats.holidaysCount + stats.sundays <= stats.totalDays

\* The collections the grid was built from are all empty
NoData == attendance = <<>> /\ leaves = <<>> /\ holidays = <<>>

\* C11: with no holidays, no leaves and no attendance records, every cell
\* with a date that is not a Sunday resolves to none (getPriorityForDay
\* returns null) and every Sunday cell, which is a cell of the first column,
\* resolves to "sunday".
C11_EmptyMonth ==
    NoData =>
        \A i \in RealCells :
            LET p == getPriorityForDay(monthGrid[i])
                sunday == TrueWeekday(year, month + 1,
                                      monthGrid[i].dayNumber) = 0
            IN  /\ sunday <=> (i - 1) % 7 = 0
                /\ sunday => (p # <<>> /\ p[1].type = "sunday")
                /\ ~sunday => p = <<>>

\* C11 witness: March 2024 without data; the 3rd is a Sunday, the 4th has no
\* status
C11_Witness ==
    /\ NoData /\ year = 2024 /\ month = 2
    /\ monthGrid[8].dayNumber = 3 /\ Resolved(8) = "sunday"
    /\ monthGrid[9].dayNumber = 4 /\ Resolved(9) = "none"

\* The type has the letters w, f, h in a row, in either case
MentionsWfh(t) ==
    \E i \in 1..(Len(t) - 2) :
        /\ t[i] \in {"w", "W"} /\ t[i + 1] \in {"f", "F"}
        /\ t[i + 2] \in {"h", "H"}

Covering(c) == SelectSeq(leaves, LAMBDA L : InSpan(L, c))

\* The types of a list of leaves joined with ", "
TypesOf(ls) == join([j \in 1..Len(ls) |-> ls[j].type], <<",", " ">>)

\* C13: a cell's leave entries are the requests whose span covers the cell's
\* date, one entry per request, in the order of the leaves collection and
\* without deduplication; where the leave rule decides, the label is the
\* types of all covering leaves joined with ", ".
C13_LeavesPerDay ==
    \A i \in RealCells :
        /\ monthGrid[i].leaves = Covering(monthGrid[i])
        /\ Resolved(i) = "leave" =>
               getPriorityForDay(monthGrid[i])[1].label
                   = TypesOf(Covering(monthGrid[i]))

\* The leaves collection with every request approved
AllApproved(ls) == [k \in 1..Len(ls) |-> [ls[k] EXCEPT !.status = "approved"]]

\* C14: the leaves query does not filter on status, and the grid built from
\* the leaves is, up to the status field of the attached entries, the grid
\* built from the same leaves all approved: the same cells get the same
\* entries and resolve to the same result, so a pending or rejected leave
\* makes a day resolve to "leave" as an approved one does.
C14_StatusIgnored ==
    /\ pc = "hol" => {leaveData[k] : k \in 1..Len(leaveData)} = dbLeaves
    /\ LET approved == BuildGrid(year, month, attendance, AllApproved(leaves),
                                 holidays, tz, lenient)
       IN  \A i \in Cells :
               /\ AllApproved(monthGrid[i].leaves) = approved[i].leaves
               /\ getPriorityForDay(monthGrid[i])
                      = getPriorityForDay(approved[i])

\* C14 witness: a day whose only leaves are pending or rejected resolves to
\* "leave", and an approved leave is in the collection too
C14_Witness ==
    /\ \E k \in 1..Len(leaves) : leaves[k].status = "approved"
    /\ \E i \in RealCells :
          /\ monthGrid[i].leaves # <<>>
          /\ \A j \in 1..Len(monthGrid[i].leaves) :
                 monthGrid[i].leaves[j].status \in {"pending", "rejected"}
          /\ Resolved(i) = "leave"

\* Positions in the attendance collection of the records dated as the cell
RecordsOf(c) == {k \in 1..Len(attendance) : attendance[k].date = c.iso}

\* The greatest element of a non-empty set of numbers
Last(S) == CHOOSE k \in S : \A j \in S : j <= k

\* C15: a cell whose date occurs in several attendance records carries the
\* one that comes last in the collection, and where no holiday, Sunday or
\* leave decides, the resolved status is that record's status (none if it is
\* not absent, half-day or present), whatever the earlier records say.
C15_LastRecordWins ==
    \A i \in RealCells :
        LET c == monthGrid[i]
        IN  IF RecordsOf(c) = {} THEN c.attendance = <<>>
            ELSE /\ c.attendance = <<attendance[Last(RecordsOf(c))]>>
                 /\ (c.holiday = <<>> /\ ~c.isSunday /\ c.leaves = <<>>) =>
                        Resolved(i) =
                            IF attendance[Last(RecordsOf(c))].status
                                   \in {"absent", "half-day", "present"}
                            THEN attendance[Last(RecordsOf(c))].status
                            ELSE "none"

\* C15 witness: 11 March has an "absent" record followed by a "present" one
\* and resolves to present
C15_Witness ==
    \E i \in RealCells :
        /\ Cardinality(RecordsOf(monthGrid[i])) = 2
        /\ attendance[1].status = "absent" /\ attendance[2].status = "present"
        /\ Resolved(i) = "present"

\* The date string lies in the displayed month
InDisplayedMonth(date) ==
    \E d \in 1..MonthLength(year, month) : date = isoFor(year, month, d)

\* C16: a cell has a holiday (an attendance record) attached exactly when
\* some holiday (record) of the collection has the cell's date as its date
\* string, and what is attached has that date; records dated outside the
\* displayed month attach to no cell and change no cell: the grid is the one
\* built without them.
C16_ExactDateMatch ==
    /\ \A i \in RealCells :
          LET c == monthGrid[i]
          IN  /\ c.holiday # <<>> <=>
                     \E k \in 1..Len(holidays) : holidays[k].date = c.iso
              /\ c.holiday # <<>> => c.holiday[1].date = c.iso
              /\ c.attendance # <<>> <=>
                     \E k \in 1..Len(attendance) : attendance[k].date = c.iso
              /\ c.attendance # <<>> => c.attendance[1].date = c.iso
    /\ monthGrid =
           BuildGrid(year, month,
                     SelectSeq(attendance, LAMBDA a : InDisplayedMonth(a.date)),
                     leaves,
                     SelectSeq(holidays, LAMBDA h : InDisplayedMonth(h.date)),
                     tz, lenient)

\* C16 witness: April 2024 is displayed, the holiday and the attendance
\* records are dated in March, and no cell has a holiday or a record
C16_Witness ==
    /\ year = 2024 /\ month = 3
    /\ holidays # <<>> /\ attendance # <<>>
    /\ \A i \in Cells :
          monthGrid[i].holiday = <<>> /\ monthGrid[i].attendance = <<>>
    /\ \E i \in RealCells : Resolved(i) = "none"

\* The string is a date of the calendar written YYYY-MM-DD
IsCalendarDate(s) ==
    /\ IsIsoShape(s)
    /\ IsoMonth(s) \in 1..12
    /\ IsoDay(s) \in 1..MonthLength(IsoYear(s), IsoMonth(s) - 1)

\* The leave has a missing or malformed date, or ends before it starts
BadLeave(L) ==
    \/ ~IsCalendarDate(L.fromDate)
    \/ ~IsCalendarDate(L.toDate)
    \/ StrLess(L.toDate, L.fromDate)

\* C17: a record whose date string is missing or malformed (attendance
\* date, holiday date, leave fromDate or toDate) is attached to no cell, and
\* neither is a leave whose toDate is before its fromDate; such records are
\* ignored: the grid is the one built without them.
C17_BadDatesIgnored ==
    /\ \A i \in Cells :
          LET c == monthGrid[i]
          IN  /\ c.holiday # <<>> => IsCalendarDate(c.holiday[1].date)
              /\ c.attendance # <<>> => IsCalendarDate(c.attendance[1].date)
              /\ \A j \in 1..Len(c.leaves) : ~BadLeave(c.leaves[j])
    /\ monthGrid =
           BuildGrid(year, month,
                     SelectSeq(attendance, LAMBDA a : IsCalendarDate(a.date)),
                     SelectSeq(leaves, LAMBDA L : ~BadLeave(L)),
                     SelectSeq(holidays, LAMBDA h : IsCalendarDate(h.date)),
                     tz, lenient)

\* The fetch is about to store collections equal to the ones in the state,
\* so that the grid is built again from unchanged inputs
SameInputsAgain ==
    /\ pc = "hol"
    /\ attData = attendance /\ leaveData = leaves
    /\ QueryHolidays(dbHol) = holidays

C19_DetailIsCurrent ==
    selectedDay # <<>> =>
        \E i \in RealCells :
            /\ monthGrid[i].iso = selectedDay[1].iso
            /\ selectedDay[1].holiday = monthGrid[i].holiday
            /\ selectedDay[1].attendance = monthGrid[i].attendance
            /\ selectedDay[1].leaves = monthGrid[i].leaves

\* C20: a cell without a date has no day number, no holiday, no attendance
\* record, no leave and no Sunday flag, and resolves to no status; the
\* selected day is null or a cell with a date.
C20_BlankCellsInert ==
    /\ \A i \in Cells :
          monthGrid[i].iso = <<>> =>
              /\ monthGrid[i] = BlankCell
              /\ getPriorityForDay(monthGrid[i]) = <<>>
    /\ selectedDay # <<>> => selectedDay[1].iso # <<>>

\* C20 witness: a day is selected in a grid that has blank cells, a holiday
\* attached, and a holiday in the collection whose date is the empty string
C20_Witness ==
    /\ selectedDay # <<>>
    /\ \E i \in Cells : monthGrid[i].iso = <<>>
    /\ \E i \in RealCells : monthGrid[i].holiday # <<>>
    /\ \E k \in 1..Len(holidays) : holidays[k].date = <<>>

\* C21: the three collections are replaced together or not at all: in every
\* state, also while a fetch is under way and after one failed, they are all
\* three as initially (empty) or all three as the backend's queries return
\* them; when no fetch is running loading is false; the grid is built from
\* the collections held; and after a failure with nothing held every day
\* resolves to none or, on a Sunday, to "sunday".
C21_FetchAllOrNothing ==
    /\ \/ NoData
       \/ /\ attendance = QueryAttendance(dbAtt)
          /\ leaves = QueryLeaves(dbLeaves)
          /\ holidays = QueryHolidays(dbHol)
    /\ pc = "idle" => loading = FALSE
    /\ monthGrid = BuildGrid(year, month, attendance, leaves, holidays, tz,
                             lenient)
    /\ (error # "" /\ NoData) =>
           \A i \in RealCells : Resolved(i) \in {"none", "sunday"}

\* C21 witness: a fetch failed after an earlier one had succeeded; the three
\* collections of the earlier one are all still held
C21_Witness ==
    /\ pc = "idle" /\ error # "" /\ loading = FALSE
    /\ attendance # <<>> /\ leaves # <<>> /\ holidays # <<>>
    /\ \E i \in RealCells : Resolved(i) = "leave"

\* C22: a cell with a date is flagged isSunday exactly when its date is a
\* Sunday of the calendar, whatever holiday, attendance record or leaves are
\* attached to it; the flagged cells are the dated cells of the first column.
C22_SundayFlag ==
    \A i \in RealCells :
        /\ monthGrid[i].isSunday <=>
               TrueWeekday(year, month + 1, monthGrid[i].dayNumber) = 0
        /\ monthGrid[i].isSunday <=> (i - 1) % 7 = 0

\* C22 witness: a Sunday with a holiday, a record and a leave is flagged, and
\* a weekday with a record and a leave is not
C22_Witness ==
    /\ \E i \in RealCells :
          /\ monthGrid[i].isSunday
          /\ monthGrid[i].holiday # <<>> /\ monthGrid[i].attendance # <<>>
          /\ monthGrid[i].leaves # <<>>
    /\ \E i \in RealCells :
          /\ ~monthGrid[i].isSunday
          /\ monthGrid[i].attendance # <<>> /\ monthGrid[i].leaves # <<>>


\* C23: whenever the role of the signed-in profile is not "hr", a mounted HR
\* screen renders the no-permission notice and nothing else, holds no
\* listener, and no backend call of an HR screen was issued under such a role
C23_HrGate ==
    /\ (screen # "none" /\ ~isHr(RoleOf(profile)))
           => (view = "notice" /\ ~subscribed)
    /\ lastOp # <<>> => isHr(lastOp[1].role)


\* C28: once every auth-state callback has finished, profile is null if user
\* is null and otherwise the users document of the current user, whatever the
\* order in which the callbacks' reads resolved; and once signup has
\* completed, the profile of the new user is set
C28_ProfileFollowsUser ==
    callbacks = <<>> =>
        /\ user = "" => profile = <<>>
        /\ user # "" =>
              profile = IF user \in DOMAIN dbUsers THEN <<dbUsers[user]>>
                        ELSE <<>>
        /\ (signupPc = "done" /\ user = "n") => profile # <<>>


\* The hook is mounted with options that make it track
Tracking == options # <<>> /\ Tracks(options[1])

\* C27: at most one location timer runs at any time, and only while the hook
\* is mounted with enabled true and a non-empty userId; whenever the hook
\* starts tracking it calls updateLocation once at once, and while a timer
\* runs the next call comes ten minutes after the last
C27_OneTimer ==
    /\ [](/\ Cardinality(DOMAIN timers) <= 1
          /\ DOMAIN timers # {} => (Tracking /\ DOMAIN timers = {intervalRef})
          /\ \A i \in DOMAIN timers :
                timers[i] + sinceUpdate = PeriodMinutes)
    /\ [][(~Tracking /\ Tracking') =>
              (pending' = pending + 1 /\ sinceUpdate' = 0
               /\ DOMAIN timers' # {})]_vars

\* Seven minutes into the timer that replaced the first one
C27_Witness ==
    /\ Tracking
    /\ intervalRef = 2
    /\ DOMAIN timers = {2} /\ timers[2] = 3


notPunched(rec) == ~hasCheckIn(rec) /\ ~hasCheckOut(rec)

\* C24: the stored record of the day only goes from not punched to punched in
\* and from punched in to completed; checkInTime is written only when the
\* loaded record has none, checkOutTime only when the loaded record has a
\* checkInTime and no checkOutTime, and a completed record is not written
C24_PunchOrder ==
    [][dbPunch' # dbPunch =>
          \/ /\ notPunched(dbPunch) /\ isPunchedIn(dbPunch')
             /\ ~hasCheckIn(pAttendance)
          \/ /\ isPunchedIn(dbPunch) /\ hasCheckOut(dbPunch')
             /\ dbPunch'[1].checkInTime = dbPunch[1].checkInTime
             /\ isPunchedIn(pAttendance)]_vars

\* C25: while the page reports that the punch out failed, the stored record
\* is still punched in: no checkOutTime, status not "present"
C25_FailedPunchOutStoresNothing ==
    pError = PunchOutFailed =>
        (isPunchedIn(dbPunch) /\ dbPunch[1].status # "present")

\* C26: once the punch out of today has set liveLocations/{uid} to inactive,
\* no write makes it active again
C26_NoReactivation ==
    [][~(/\ dbLive = LiveLocation(FALSE, "today")
         /\ dbLive' = LiveLocation(TRUE, "today"))]_vars


\* A call of handleDecision for the request r is still awaiting
Deciding(r) == \E i \in 1..Len(decisions) : decisions[i].id = r

\* C29: a request that is stored as approved, with no decision on it still
\* running, has its attendance record set to present with the requested
\* times; and a request is off the pending list only after its whole decision
\* succeeded
C29_ApprovedWithAttendance ==
    \A r \in DOMAIN dbReg :
        /\ (dbReg[r] = "approved" /\ ~Deciding(r))
               => dbRegAtt[r] = "regularised"
        /\ r \notin requests =>
               \/ dbReg[r] = "rejected"
               \/ dbReg[r] = "approved" /\ dbRegAtt[r] = "regularised"

\* pending -> approved, pending -> rejected, approved -> paid
Moves == {<<"pending", "approved">>, <<"pending", "rejected">>,
          <<"approved", "paid">>}

\* C30: a stored status of an expense only makes one of the three moves, so
\* that rejected and paid are final; the status shown changes only to the one
\* that an update has just stored; and with no update running updatingId is
\* null
C30_StatusMoves ==
    /\ [][\A e \in DOMAIN dbExp :
             /\ dbExp'[e] # dbExp[e] => <<dbExp[e], dbExp'[e]>> \in Moves
             /\ expenses'[e] # expenses[e] => expenses'[e] = dbExp'[e]]_vars
    /\ [](updates = <<>> => updatingId = <<>>)

====
